---- MODULE Spec2Model ----
(***************************************************************************)
(* Process-lifecycle core of hopm (src/src/main.c): the staged pledge /    *)
(* unveil bootstrap of main(), the signal handler do_signal(), the tick    *)
(* loop with its restart, log-rotation and timer branches, and             *)
(* main_restart().  One action per statement of main(); signal deliveries  *)
(* interleave with the statements of main().                               *)
(***************************************************************************)
EXTENDS Integers, Sequences, FiniteSets, TLC

(* ------------------------------ bounds -------------------------------- *)
\* highest debug level given on the command line (number of -d options)
MaxDebug == 2
\* number of SIGALRM deliveries (timer expiries and external kills) per image
MaxAlarms == 2
\* number of process images followed (1 + number of successful execv calls)
MaxImages == 2
\* width in bits of the model's unsigned int (the loop counter of line 280)
UIntBits == 2
\* saturation of the per-descriptor count of close-on-exec markings
MarkCap == 2

UIntModulus == 2 ^ UIntBits
\* soft descriptor limits getrlimit() may report; rlim_t is wider than
\* unsigned int, so values at and above UIntModulus are included
MaxCeiling == UIntModulus + 1

(* ------------------------------ state --------------------------------- *)
VARIABLES
  image,        \* which process image is running (1 = first)
  run,          \* "running", "exited", "killed" (by a signal), "replaced"
  status,       \* exit status once exited, -1 otherwise
  exitBy,       \* what ended the process
  pid,          \* "parent" before fork(), "child" after it
  pc,           \* statement of main() about to execute
  hpc,          \* position inside do_signal(SIGALRM): "none" or "alarm"
  argDebug,     \* number of -d options in argv
  cfgScanlog,   \* the configuration file sets a scanlog path
  OPT_DEBUG,    \* main.c:59
  scanlog,      \* OptionsItem.scanlog is non-NULL
  RESTART,      \* main.c:45
  ALARMED,      \* main.c:46
  REOPEN,       \* main.c:47
  installed,    \* signals whose disposition is do_signal
  armed,        \* a one-shot alarm(1) timer is pending
  nAlrm,        \* SIGALRM deliveries so far in this image
  promises,     \* pledge() operation set currently held
  narrowed,     \* the pledge() of line 224 has succeeded
  unveils,      \* sequence of <<path, rights>> granted by unveil()
  stdio,        \* where stdin/stdout/stderr point: "terminal" or "null"
  logOpen,      \* the main log is open
  scanlogOpen,  \* the scan log is open
  pidout,       \* FILE *pidout: "unset", "null", "open", "closed"
  pidfile,      \* contents of the pid file: <<image, pid>> of its writer
  opens,        \* paths opened or executed so far, with the grant status
  rlim_cur,     \* rlim.rlim_cur after getrlimit(RLIMIT_NOFILE)
  i,            \* loop counter of line 280
  marked,       \* descriptor number -> number of FD_CLOEXEC markings
  execvCalls,   \* number of execv() calls of this image (0 or 1)
  logged,       \* messages passed to log_printf() by this image
  diag,         \* what err()/perror() wrote to stderr, and where that went
  iter,         \* what the current loop iteration has done so far
  used,         \* operation categories exercised after the final pledge
  timerCalls,   \* calls of irc_timer, scan_timer, command_timer
  alarmClears,  \* executions of ALARMED = 0
  usr1Unserved, \* a SIGUSR1 was handled and no rotation has started since
  restartBy,    \* who set RESTART: subset of {"SIGHUP", "main_restart"}
  ev            \* the last step taken

procVars == <<image, run, status, exitBy, pid>>
cfgVars  == <<argDebug, cfgScanlog, OPT_DEBUG, scanlog>>
flagVars == <<RESTART, ALARMED, REOPEN>>
sigVars  == <<installed, armed, nAlrm>>
sbVars   == <<promises, narrowed, unveils>>
ioVars   == <<stdio, logOpen, scanlogOpen, pidout, pidfile, opens>>
rsVars   == <<rlim_cur, i, marked, execvCalls>>
histVars == <<timerCalls, alarmClears, usr1Unserved, restartBy>>

vars == <<procVars, pc, hpc, cfgVars, flagVars, sigVars, sbVars, ioVars,
          rsVars, logged, diag, iter, used, histVars, ev>>

(* ----------------------------- sandbox -------------------------------- *)
\* pledge("stdio rpath wpath cpath inet dns proc exec unveil", NULL)
BroadPromises ==
  {"stdio", "rpath", "wpath", "cpath", "inet", "dns", "proc", "exec", "unveil"}

\* pledge("stdio inet dns exec", NULL)
FinalPromises == {"stdio", "inet", "dns", "exec"}

\* a fresh image holds every operation category until it pledges
AllPromises == BroadPromises

\* the letters of an unveil() permission string
Rights(r) ==
  CASE r = ""   -> {}
    [] r = "r"  -> {"r"}
    [] r = "rw" -> {"r", "w"}
    [] r = "wc" -> {"w", "c"}
    [] r = "x"  -> {"x"}

\* the operation category needed to use one unveil right on a path
PromiseFor(right) ==
  CASE right = "r" -> "rpath"
    [] right = "w" -> "wpath"
    [] right = "c" -> "cpath"
    [] right = "x" -> "exec"

\* what opening a path with the rights r needs from the operation set
PathNeeds(r) == {"stdio"} \cup {PromiseFor(x) : x \in Rights(r)}

\* path is visible with at least the rights r
Granted(path, r) ==
  \E k \in 1..Len(unveils) :
    unveils[k][1] = path /\ Rights(r) \subseteq Rights(unveils[k][2])

\* open (or execute) path with rights r: remember whether it was granted
Open(path, r) ==
  opens' = opens \cup {[path |-> path, rights |-> r, granted |-> Granted(path, r)]}

\* operation categories of the collaborators' entry points
CollabNeeds(fn) ==
  CASE fn = "irc_cycle"  -> {"stdio", "inet", "dns"}
    [] fn = "scan_cycle" -> {"stdio", "inet"}
    [] OTHER             -> {"stdio"}

(* ----------------------------- helpers -------------------------------- *)
Running == run = "running" /\ hpc = "none"

\* the step `label` ran and needed the operation categories `need`
Did(label, need) ==
  /\ ev' = label
  /\ used' = IF narrowed THEN used \cup need ELSE used

Note(x) == iter' = Append(iter, x)

\* log_printf(msg)
Log(msg) == logged' = logged \cup {msg}

\* exit(code) / return code from main
Exit(code, by) ==
  /\ run' = "exited"
  /\ status' = code
  /\ exitBy' = by
  /\ UNCHANGED <<image, pid>>

\* err(1, what) and perror(what); exit(EXIT_FAILURE): the message goes to
\* stderr, wherever that points and whether or not the log is open, then
\* exit 1
Fatal(what) ==
  /\ diag' = diag \cup {[sink |-> stdio, msg |-> what, logOpen |-> logOpen]}
  /\ Exit(1, what)

Alive == UNCHANGED procVars

\* main_restart(), main.c:327-331
main_restart ==
  /\ RESTART' = 1
  /\ restartBy' = restartBy \cup {"main_restart"}

\* a collaborator call may or may not call main_restart()
MayRestart ==
  \/ main_restart
  \/ UNCHANGED <<RESTART, restartBy>>

(* ------------------------------- Init --------------------------------- *)
NoMarks == [fd \in 0..(UIntModulus - 1) |-> 0]

\* the values of a fresh image of the program started with d -d options and
\* a configuration with (s) or without a scanlog, as image number n; over
\* execv it inherits the pending alarm a, the standard streams io and the
\* pid file contents p, and nothing else
Fresh(n, d, s, a, io, p) ==
  [image |-> n, run |-> "running", status |-> -1, exitBy |-> "none",
   pid |-> "parent", pc |-> "pledge_broad", hpc |-> "none",
   argDebug |-> d, cfgScanlog |-> s, OPT_DEBUG |-> 0, scanlog |-> FALSE,
   RESTART |-> 0, ALARMED |-> 0, REOPEN |-> 0,
   installed |-> {}, armed |-> a, nAlrm |-> 0,
   promises |-> AllPromises, narrowed |-> FALSE, unveils |-> <<>>,
   stdio |-> io, logOpen |-> FALSE, scanlogOpen |-> FALSE,
   pidout |-> "unset", pidfile |-> p, opens |-> {},
   rlim_cur |-> 0, i |-> 0, marked |-> NoMarks, execvCalls |-> 0,
   logged |-> {}, diag |-> {}, iter |-> <<>>, used |-> {},
   timerCalls |-> [irc |-> 0, scan |-> 0, cmd |-> 0], alarmClears |-> 0,
   usr1Unserved |-> FALSE, restartBy |-> {}, ev |-> "start"]

\* the program starts in the state f
Starts(f) ==
  /\ image = f.image /\ run = f.run /\ status = f.status
  /\ exitBy = f.exitBy /\ pid = f.pid /\ pc = f.pc
  /\ hpc = f.hpc /\ argDebug = f.argDebug /\ cfgScanlog = f.cfgScanlog
  /\ OPT_DEBUG = f.OPT_DEBUG /\ scanlog = f.scanlog /\ RESTART = f.RESTART
  /\ ALARMED = f.ALARMED /\ REOPEN = f.REOPEN /\ installed = f.installed
  /\ armed = f.armed /\ nAlrm = f.nAlrm /\ promises = f.promises
  /\ narrowed = f.narrowed /\ unveils = f.unveils /\ stdio = f.stdio
  /\ logOpen = f.logOpen /\ scanlogOpen = f.scanlogOpen /\ pidout = f.pidout
  /\ pidfile = f.pidfile /\ opens = f.opens /\ rlim_cur = f.rlim_cur
  /\ i = f.i /\ marked = f.marked /\ execvCalls = f.execvCalls
  /\ logged = f.logged /\ diag = f.diag /\ iter = f.iter
  /\ used = f.used /\ timerCalls = f.timerCalls /\ alarmClears = f.alarmClears
  /\ usr1Unserved = f.usr1Unserved /\ restartBy = f.restartBy /\ ev = f.ev

\* the next state is the start f of a new image
StartsNext(f) ==
  /\ image' = f.image /\ run' = f.run /\ status' = f.status
  /\ exitBy' = f.exitBy /\ pid' = f.pid /\ pc' = f.pc
  /\ hpc' = f.hpc /\ argDebug' = f.argDebug /\ cfgScanlog' = f.cfgScanlog
  /\ OPT_DEBUG' = f.OPT_DEBUG /\ scanlog' = f.scanlog /\ RESTART' = f.RESTART
  /\ ALARMED' = f.ALARMED /\ REOPEN' = f.REOPEN /\ installed' = f.installed
  /\ armed' = f.armed /\ nAlrm' = f.nAlrm /\ promises' = f.promises
  /\ narrowed' = f.narrowed /\ unveils' = f.unveils /\ stdio' = f.stdio
  /\ logOpen' = f.logOpen /\ scanlogOpen' = f.scanlogOpen /\ pidout' = f.pidout
  /\ pidfile' = f.pidfile /\ opens' = f.opens /\ rlim_cur' = f.rlim_cur
  /\ i' = f.i /\ marked' = f.marked /\ execvCalls' = f.execvCalls
  /\ logged' = f.logged /\ diag' = f.diag /\ iter' = f.iter
  /\ used' = f.used /\ timerCalls' = f.timerCalls /\ alarmClears' = f.alarmClears
  /\ usr1Unserved' = f.usr1Unserved /\ restartBy' = f.restartBy /\ ev' = f.ev

NoPid == <<0, "none">>

Init ==
  \E d \in 0..MaxDebug, s \in BOOLEAN :
    Starts(Fresh(1, d, s, FALSE, "terminal", NoPid))

(* --------------------- bootstrap, main.c:104-255 ---------------------- *)
\* what a bootstrap step that only moves on leaves alone
BootFrame ==
  UNCHANGED <<hpc, flagVars, sigVars, rsVars, iter, histVars>>

\* if (pledge("stdio rpath wpath cpath inet dns proc exec unveil", NULL) == -1)
\*   err(1, "pledge");
PledgeBroad ==
  /\ Running /\ pc = "pledge_broad"
  /\ Did("pledge_broad", {})
  /\ \/ /\ promises' = promises \cap BroadPromises
        /\ pc' = "unveil_root"
        /\ Alive /\ UNCHANGED diag
     \/ /\ Fatal("pledge")
        /\ UNCHANGED <<promises, pc>>
  /\ BootFrame
  /\ UNCHANGED <<cfgVars, narrowed, unveils, ioVars, logged>>

\* if (unveil(path, rights) == -1) err(1, "unveil");
UnveilStep(label, path, rights, next) ==
  /\ Running /\ pc = label
  /\ Did(label, {})
  /\ \/ /\ unveils' = Append(unveils, <<path, rights>>)
        /\ pc' = next
        /\ Alive /\ UNCHANGED diag
     \/ /\ Fatal("unveil")
        /\ UNCHANGED <<unveils, pc>>
  /\ BootFrame
  /\ UNCHANGED <<cfgVars, promises, narrowed, ioVars, logged>>

\* main.c:108  unveil("/", "")
UnveilRoot == UnveilStep("unveil_root", "/", "", "getopt")

\* main.c:112-140  setup_corelimit(), the getopt() loop, CONFFILE and LOGFILE
GetOpt ==
  /\ Running /\ pc = "getopt"
  /\ Did("getopt", {})
  /\ OPT_DEBUG' = argDebug
  /\ pc' = "unveil_prefix"
  /\ Alive /\ BootFrame
  /\ UNCHANGED <<argDebug, cfgScanlog, scanlog, sbVars, ioVars, logged, diag>>

\* main.c:142  unveil(HOPM_PREFIX, "r")
UnveilPrefix == UnveilStep("unveil_prefix", "PREFIX", "r", "chdir")

\* main.c:146-150  chdir(HOPM_PREFIX)
Chdir ==
  /\ Running /\ pc = "chdir"
  /\ Did("chdir", {})
  /\ \/ /\ pc' = IF OPT_DEBUG = 0 THEN "fork" ELSE "log_debug"
        /\ Alive /\ UNCHANGED diag
     \/ /\ Fatal("chdir")
        /\ UNCHANGED pc
  /\ BootFrame
  /\ UNCHANGED <<cfgVars, sbVars, ioVars, logged>>

\* main.c:155-161  fork(); the parent leaves with _exit(EXIT_SUCCESS) and the
\* model follows the child, which does not inherit a pending alarm (an
\* image started by execv can still have the one of the previous image)
Fork ==
  /\ Running /\ pc = "fork"
  /\ Did("fork", {})
  /\ \/ /\ pid' = "child"
        /\ armed' = FALSE
        /\ pc' = "setpgid"
        /\ UNCHANGED <<image, run, status, exitBy, diag>>
     \/ /\ Fatal("fork()")
        /\ UNCHANGED <<pc, armed>>
  /\ UNCHANGED <<hpc, flagVars, installed, nAlrm, rsVars, iter, histVars>>
  /\ UNCHANGED <<cfgVars, sbVars, ioVars, logged>>

\* main.c:164-171  setpgid(0, 0); umask(077)
Setpgid ==
  /\ Running /\ pc = "setpgid"
  /\ Did("setpgid", {})
  /\ \/ /\ pc' = "open_null"
        /\ Alive /\ UNCHANGED diag
     \/ /\ Fatal("setpgid()")
        /\ UNCHANGED pc
  /\ BootFrame
  /\ UNCHANGED <<cfgVars, sbVars, ioVars, logged>>

\* main.c:174-186  open("/dev/null", O_RDWR) and the three dup2()
OpenNull ==
  /\ Running /\ pc = "open_null"
  /\ Did("open_null", {})
  /\ Open("/dev/null", "rw")
  /\ \/ /\ stdio' = "null"
        /\ pc' = "unveil_log"
        /\ Alive /\ UNCHANGED diag
     \/ /\ Fatal("open()")
        /\ UNCHANGED <<stdio, pc>>
  /\ BootFrame
  /\ UNCHANGED <<cfgVars, sbVars, logOpen, scanlogOpen, pidout, pidfile, logged>>

\* main.c:188  unveil(LOGFILE, "wc")
UnveilLog == UnveilStep("unveil_log", "LOGFILE", "wc", "log_open")

\* main.c:192  log_open(LOGFILE)
LogOpen ==
  /\ Running /\ pc = "log_open"
  /\ Did("log_open", PathNeeds("wc"))
  /\ Open("LOGFILE", "wc")
  /\ logOpen' = TRUE
  /\ pc' = "log_started"
  /\ Alive /\ BootFrame
  /\ UNCHANGED <<cfgVars, sbVars, stdio, scanlogOpen, pidout, pidfile, logged, diag>>

\* main.c:195  log_printf("MAIN -> Debug level %d", OPT_DEBUG)
LogDebug ==
  /\ Running /\ pc = "log_debug"
  /\ Did("log_debug", {"stdio"})
  /\ Log("Debug level")
  /\ pc' = "log_started"
  /\ Alive /\ BootFrame
  /\ UNCHANGED <<cfgVars, sbVars, ioVars, diag>>

\* main.c:197-198  "HOPM started", "Reading configuration file..."
LogStarted ==
  /\ Running /\ pc = "log_started"
  /\ Did("log_started", {"stdio"})
  /\ logged' = logged \cup {"started", "Reading configuration file"}
  /\ pc' = "unveil_conf"
  /\ Alive /\ BootFrame
  /\ UNCHANGED <<cfgVars, sbVars, ioVars, diag>>

\* main.c:200  unveil(CONFFILE, "r")
UnveilConf == UnveilStep("unveil_conf", "CONFFILE", "r", "config_load")

\* main.c:204-206  config_load(CONFFILE); if (OptionsItem.scanlog)
ConfigLoad ==
  /\ Running /\ pc = "config_load"
  /\ Did("config_load", PathNeeds("r"))
  /\ Open("CONFFILE", "r")
  /\ scanlog' = cfgScanlog
  /\ pc' = IF cfgScanlog THEN "unveil_scanlog" ELSE "unveil_pid"
  /\ Alive /\ BootFrame
  /\ UNCHANGED <<argDebug, cfgScanlog, OPT_DEBUG, sbVars, stdio, logOpen,
                 scanlogOpen, pidout, pidfile, logged, diag>>

\* main.c:207  unveil(OptionsItem.scanlog, "wc")
UnveilScanlog == UnveilStep("unveil_scanlog", "SCANLOG", "wc", "scanlog_open")

\* main.c:211  scanlog_open(OptionsItem.scanlog)
ScanlogOpen ==
  /\ Running /\ pc = "scanlog_open"
  /\ Did("scanlog_open", PathNeeds("wc"))
  /\ Open("SCANLOG", "wc")
  /\ scanlogOpen' = TRUE
  /\ pc' = "unveil_pid"
  /\ Alive /\ BootFrame
  /\ UNCHANGED <<cfgVars, sbVars, stdio, logOpen, pidout, pidfile, logged, diag>>

\* main.c:214  unveil(OptionsItem.pidfile, "wc")
UnveilPid == UnveilStep("unveil_pid", "PIDFILE", "wc", "fopen_pid")

\* main.c:218  pidout = fopen(OptionsItem.pidfile, "w")
FopenPid ==
  /\ Running /\ pc = "fopen_pid"
  /\ Did("fopen_pid", PathNeeds("wc"))
  /\ Open("PIDFILE", "wc")
  /\ \E ok \in BOOLEAN : pidout' = IF ok THEN "open" ELSE "null"
  /\ pc' = "unveil_bin"
  /\ Alive /\ BootFrame
  /\ UNCHANGED <<cfgVars, sbVars, stdio, logOpen, scanlogOpen, pidfile, logged, diag>>

\* main.c:220  unveil(HOPM_BINPATH, "x")
UnveilBin == UnveilStep("unveil_bin", "BINPATH", "x", "pledge_final")

\* mutant: the final pledge is left out and the pid is written without it
PledgeFinal_Skipped ==
  /\ Running /\ pc = "pledge_final"
  /\ Did("pledge_final", {})
  /\ pc' = IF pidout = "open" THEN "write_pid" ELSE "pid_error_log"
  /\ Alive /\ BootFrame
  /\ UNCHANGED <<cfgVars, sbVars, ioVars, logged, diag>>

\* main.c:224-226  if (pledge("stdio inet dns exec", NULL) == -1) err(1, "pledge")
PledgeFinal ==
  /\ Running /\ pc = "pledge_final"
  /\ Did("pledge_final", {})
  /\ \/ /\ promises' = promises \cap FinalPromises
        /\ narrowed' = TRUE
        /\ pc' = IF pidout = "open" THEN "write_pid" ELSE "pid_error_log"
        /\ Alive /\ UNCHANGED diag
     \/ /\ Fatal("pledge")
        /\ UNCHANGED <<promises, narrowed, pc>>
  /\ BootFrame
  /\ UNCHANGED <<cfgVars, unveils, ioVars, logged>>

\* main.c:230  fprintf(pidout, "%u\n", (unsigned int)getpid())
WritePid ==
  /\ Running /\ pc = "write_pid"
  /\ Did("write_pid", {"stdio"})
  /\ pidfile' = <<image, pid>>
  /\ pc' = "fclose_pid"
  /\ Alive /\ BootFrame
  /\ UNCHANGED <<cfgVars, sbVars, stdio, logOpen, scanlogOpen, pidout, opens,
                 logged, diag>>

\* main.c:231  fclose(pidout)
FclosePid ==
  /\ Running /\ pc = "fclose_pid"
  /\ Did("fclose_pid", {"stdio"})
  /\ pidout' = "closed"
  /\ pc' = "sigaction_alrm"
  /\ Alive /\ BootFrame
  /\ UNCHANGED <<cfgVars, sbVars, stdio, logOpen, scanlogOpen, pidfile, opens,
                 logged, diag>>

\* main.c:235  log_printf("MAIN -> Error opening pid file %s: %s", ...)
PidErrorLog ==
  /\ Running /\ pc = "pid_error_log"
  /\ Did("pid_error_log", {"stdio"})
  /\ Log("Error opening pid file")
  /\ pc' = "pid_error_exit"
  /\ Alive /\ BootFrame
  /\ UNCHANGED <<cfgVars, sbVars, ioVars, diag>>

\* mutant: the pid file error is logged and the bootstrap goes on
PidErrorExit_Continues ==
  /\ Running /\ pc = "pid_error_exit"
  /\ Did("pid_error_exit", {})
  /\ pc' = "sigaction_alrm"
  /\ Alive /\ BootFrame
  /\ UNCHANGED <<cfgVars, sbVars, ioVars, logged, diag>>

\* main.c:237  exit(EXIT_FAILURE)
PidErrorExit ==
  /\ Running /\ pc = "pid_error_exit"
  /\ Did("pid_error_exit", {})
  /\ Exit(1, "pid file")
  /\ BootFrame
  /\ UNCHANGED <<pc, cfgVars, sbVars, ioVars, logged, diag>>

\* sigaction(sig, &ACTION, NULL) with sa_handler = &do_signal
Sigaction(label, sig, next) ==
  /\ Running /\ pc = label
  /\ Did(label, {"stdio"})
  /\ installed' = installed \cup {sig}
  /\ pc' = next
  /\ Alive
  /\ UNCHANGED <<hpc, cfgVars, flagVars, armed, nAlrm, sbVars, ioVars, rsVars,
                 logged, diag, iter, histVars>>

\* main.c:241-242, 247
SigactionAlrm == Sigaction("sigaction_alrm", "SIGALRM", "sigaction_int")
\* main.c:243, 248
SigactionInt == Sigaction("sigaction_int", "SIGINT", "sigaction_hup")
\* main.c:244, 249
SigactionHup == Sigaction("sigaction_hup", "SIGHUP", "sigaction_usr1")
\* main.c:245, 250
SigactionUsr1 == Sigaction("sigaction_usr1", "SIGUSR1", "alarm")

\* main.c:253-255  signal(SIGPIPE, SIG_IGN); alarm(1)
Alarm ==
  /\ Running /\ pc = "alarm"
  /\ Did("alarm", {"stdio"})
  /\ armed' = TRUE
  /\ pc' = "irc_cycle"
  /\ Alive
  /\ UNCHANGED <<hpc, cfgVars, flagVars, installed, nAlrm, sbVars, ioVars,
                 rsVars, logged, diag, iter, histVars>>

(* ------------------------ tick loop, main.c:257-317 ------------------- *)
LoopFrame == UNCHANGED <<hpc, cfgVars, sigVars, sbVars, diag>>

\* a call of a collaborator's progress function
Cycle(label, next) ==
  /\ Running /\ pc = label
  /\ Did(label, CollabNeeds(label))
  /\ MayRestart
  /\ pc' = next
  /\ Alive /\ LoopFrame
  /\ UNCHANGED <<ALARMED, REOPEN, ioVars, rsVars, logged, timerCalls,
                 alarmClears, usr1Unserved>>

\* main.c:260  irc_cycle(), the first statement of an iteration
IrcCycle ==
  /\ Cycle("irc_cycle", "scan_cycle")
  /\ iter' = <<"irc_cycle">>

\* main.c:261  scan_cycle()
ScanCycle ==
  /\ Cycle("scan_cycle", "check_restart")
  /\ Note("scan_cycle")

\* a step of the loop that changes nothing but pc, iter and what it names
Quiet == Alive /\ LoopFrame /\ UNCHANGED <<flagVars, histVars>>

\* mutant: the restart check placed behind the rotation and timer checks,
\* so a pending rotation or tick is served first
CheckRestart_Last ==
  /\ Running /\ pc = "check_restart"
  /\ Did("check_restart", {})
  /\ IF RESTART # 0 /\ REOPEN = 0 /\ ALARMED = 0
       THEN pc' = "restart_debug" /\ Note("RESTART=1")
       ELSE pc' = "check_reopen" /\ Note("RESTART=0")
  /\ Quiet
  /\ UNCHANGED <<ioVars, rsVars, logged>>

\* main.c:264  if (RESTART)
CheckRestart ==
  /\ Running /\ pc = "check_restart"
  /\ Did("check_restart", {})
  /\ IF RESTART # 0
       THEN pc' = "restart_debug" /\ Note("RESTART=1")
       ELSE pc' = "check_reopen" /\ Note("RESTART=0")
  /\ Quiet
  /\ UNCHANGED <<ioVars, rsVars, logged>>

\* mutant: no debug check, a debug image restarts like any other
RestartDebug_Missing ==
  /\ Running /\ pc = "restart_debug"
  /\ Did("restart_debug", {})
  /\ pc' = "restart_log"
  /\ Note("restart_debug")
  /\ Quiet
  /\ UNCHANGED <<ioVars, rsVars, logged>>

\* main.c:267-268  if (OPT_DEBUG) return 1;
RestartDebug ==
  /\ Running /\ pc = "restart_debug"
  /\ Did("restart_debug", {})
  /\ IF OPT_DEBUG # 0
       THEN /\ Exit(1, "restart in debug mode")
            /\ UNCHANGED pc
       ELSE /\ pc' = "restart_log"
            /\ Alive
  /\ Note("restart_debug")
  /\ LoopFrame
  /\ UNCHANGED <<flagVars, histVars, ioVars, rsVars, logged>>

\* main.c:270  log_printf("MAIN -> Restarting process")
RestartLog ==
  /\ Running /\ pc = "restart_log"
  /\ Did("restart_log", {"stdio"})
  /\ Log("Restarting process")
  /\ pc' = "getrlimit"
  /\ Note("restart_log")
  /\ Quiet
  /\ UNCHANGED <<ioVars, rsVars>>

\* main.c:273  if (getrlimit(RLIMIT_NOFILE, &rlim) == -1); on success the
\* loop of line 280 starts with i = 0
Getrlimit ==
  /\ Running /\ pc = "getrlimit"
  /\ Did("getrlimit", {"stdio"})
  /\ \/ /\ \E c \in 0..MaxCeiling : rlim_cur' = c
        /\ i' = 0
        /\ pc' = "mark_loop"
     \/ /\ pc' = "getrlimit_log"
        /\ UNCHANGED <<rlim_cur, i>>
  /\ Note("getrlimit")
  /\ Quiet
  /\ UNCHANGED <<ioVars, marked, execvCalls, logged>>

\* main.c:275  log_printf("MAIN RESTART -> getrlimit() error ...")
GetrlimitLog ==
  /\ Running /\ pc = "getrlimit_log"
  /\ Did("getrlimit_log", {"stdio"})
  /\ Log("getrlimit() error")
  /\ pc' = "getrlimit_return"
  /\ Note("getrlimit_log")
  /\ Quiet
  /\ UNCHANGED <<ioVars, rsVars>>

\* main.c:276  return 1;
GetrlimitReturn ==
  /\ Running /\ pc = "getrlimit_return"
  /\ Did("getrlimit_return", {})
  /\ Exit(1, "getrlimit")
  /\ LoopFrame
  /\ UNCHANGED <<pc, flagVars, histVars, ioVars, rsVars, logged, iter>>

\* main.c:280-281  for (unsigned int i = 0; i < rlim.rlim_cur; ++i)
\*                   fcntl(i, F_SETFD, FD_CLOEXEC);
\* one pass: the test, and when it holds the call (its result is ignored)
\* and the increment of the unsigned int
MarkLoop ==
  /\ Running /\ pc = "mark_loop"
  /\ Did("mark_loop", {"stdio"})
  /\ IF i < rlim_cur
       THEN /\ marked' = [marked EXCEPT ![i] = IF @ < MarkCap THEN @ + 1 ELSE @]
            /\ i' = (i + 1) % UIntModulus
            /\ UNCHANGED pc
       ELSE /\ pc' = "execv"
            /\ UNCHANGED <<marked, i>>
  /\ Quiet
  /\ UNCHANGED <<ioVars, rlim_cur, execvCalls, logged, iter>>

\* descriptor 2 keeps its target over execv unless it was marked close-on-exec
StdioOverExec == IF marked[2] > 0 THEN "closed" ELSE stdio

\* main.c:284  if (execv(HOPM_BINPATH, argv) == -1): the call succeeded and
\* a new image of the program, with the same argv, starts from main()
ExecvOk ==
  /\ Running /\ pc = "execv"
  /\ image < MaxImages
  /\ \E s \in BOOLEAN :
       StartsNext(Fresh(image + 1, argDebug, s, armed, StdioOverExec, pidfile))

\* the same, for the last image the model follows
ExecvLast ==
  /\ Running /\ pc = "execv"
  /\ image = MaxImages
  /\ Did("execv", {"exec"})
  /\ Open("BINPATH", "x")
  /\ execvCalls' = execvCalls + 1
  /\ run' = "replaced"
  /\ exitBy' = "execv"
  /\ Note("execv")
  /\ LoopFrame
  /\ UNCHANGED <<image, status, pid, pc, flagVars, histVars, stdio, logOpen,
                 scanlogOpen, pidout, pidfile, rlim_cur, i, marked, logged>>

\* main.c:284  execv() returned -1
ExecvFail ==
  /\ Running /\ pc = "execv"
  /\ Did("execv", {"exec"})
  /\ Open("BINPATH", "x")
  /\ execvCalls' = execvCalls + 1
  /\ pc' = "execv_log"
  /\ Note("execv")
  /\ Quiet
  /\ UNCHANGED <<stdio, logOpen, scanlogOpen, pidout, pidfile, rlim_cur, i,
                 marked, logged>>

\* main.c:285  log_printf("MAIN RESTART -> Execution of \"%s\" failed. ...")
ExecvLog ==
  /\ Running /\ pc = "execv_log"
  /\ Did("execv_log", {"stdio"})
  /\ Log("Execution failed")
  /\ pc' = "execv_exit"
  /\ Note("execv_log")
  /\ Quiet
  /\ UNCHANGED <<ioVars, rsVars>>

\* mutant: after the failed execv the old image goes on with its iteration
ExecvExit_FallsThrough ==
  /\ Running /\ pc = "execv_exit"
  /\ Did("execv_exit", {})
  /\ pc' = "check_reopen"
  /\ Quiet
  /\ UNCHANGED <<ioVars, rsVars, logged, iter>>

\* main.c:287  exit(0);  /* Should only get here if execv() failed */
ExecvExit ==
  /\ Running /\ pc = "execv_exit"
  /\ Did("execv_exit", {})
  /\ Exit(0, "execv failed")
  /\ LoopFrame
  /\ UNCHANGED <<pc, flagVars, histVars, ioVars, rsVars, logged, iter>>

(* ---------------------- log rotation, main.c:291-306 ------------------ *)
\* main.c:291  if (REOPEN)
CheckReopen ==
  /\ Running /\ pc = "check_reopen"
  /\ Did("check_reopen", {})
  /\ IF REOPEN # 0
       THEN pc' = "rot_log_caught" /\ Note("REOPEN=1")
       ELSE pc' = "check_alarmed" /\ Note("REOPEN=0")
  /\ Quiet
  /\ UNCHANGED <<ioVars, rsVars, logged>>

\* main.c:293  log_printf("MAIN -> Caught SIGUSR1, reopening logfiles")
RotLogCaught ==
  /\ Running /\ pc = "rot_log_caught"
  /\ Did("rot_log_caught", {"stdio"})
  /\ Log("Caught SIGUSR1")
  /\ pc' = "log_close"
  /\ Note("rot_log_caught")
  /\ Quiet
  /\ UNCHANGED <<ioVars, rsVars>>

\* main.c:294  log_close(): the close that begins a rotation
LogClose ==
  /\ Running /\ pc = "log_close"
  /\ Did("log_close", {"stdio"})
  /\ logOpen' = FALSE
  /\ usr1Unserved' = FALSE
  /\ pc' = "rot_log_open"
  /\ Note("log_close")
  /\ Alive /\ LoopFrame
  /\ UNCHANGED <<flagVars, timerCalls, alarmClears, restartBy, stdio,
                 scanlogOpen, pidout, pidfile, opens, rsVars, logged>>

\* mutant: the rotation grants the log path again before reopening it
RotLogOpen_Unveils ==
  /\ Running /\ pc = "rot_log_open"
  /\ Did("log_open", PathNeeds("wc"))
  /\ Open("LOGFILE", "wc")
  /\ unveils' = Append(unveils, <<"LOGFILE", "wc">>)
  /\ logOpen' = TRUE
  /\ pc' = IF scanlog THEN "scanlog_close" ELSE "rot_log_reopened"
  /\ Note("log_open")
  /\ Alive
  /\ UNCHANGED <<hpc, cfgVars, sigVars, promises, narrowed, diag, flagVars,
                 histVars, stdio, scanlogOpen, pidout, pidfile, rsVars, logged>>

\* mutant: the rotation reopens the main log and leaves the scan log alone
RotLogOpen_NoScanlog ==
  /\ Running /\ pc = "rot_log_open"
  /\ Did("log_open", PathNeeds("wc"))
  /\ Open("LOGFILE", "wc")
  /\ logOpen' = TRUE
  /\ pc' = "rot_log_reopened"
  /\ Note("log_open")
  /\ Quiet
  /\ UNCHANGED <<stdio, scanlogOpen, pidout, pidfile, rsVars, logged>>

\* main.c:295-297  log_open(LOGFILE); if (OptionsItem.scanlog)
RotLogOpen ==
  /\ Running /\ pc = "rot_log_open"
  /\ Did("log_open", PathNeeds("wc"))
  /\ Open("LOGFILE", "wc")
  /\ logOpen' = TRUE
  /\ pc' = IF scanlog THEN "scanlog_close" ELSE "rot_log_reopened"
  /\ Note("log_open")
  /\ Quiet
  /\ UNCHANGED <<stdio, scanlogOpen, pidout, pidfile, rsVars, logged>>

\* main.c:299  scanlog_close()
ScanlogClose ==
  /\ Running /\ pc = "scanlog_close"
  /\ Did("scanlog_close", {"stdio"})
  /\ scanlogOpen' = FALSE
  /\ pc' = "rot_scanlog_open"
  /\ Note("scanlog_close")
  /\ Quiet
  /\ UNCHANGED <<stdio, logOpen, pidout, pidfile, opens, rsVars, logged>>

\* main.c:300  scanlog_open(OptionsItem.scanlog)
RotScanlogOpen ==
  /\ Running /\ pc = "rot_scanlog_open"
  /\ Did("scanlog_open", PathNeeds("wc"))
  /\ Open("SCANLOG", "wc")
  /\ scanlogOpen' = TRUE
  /\ pc' = "rot_log_reopened"
  /\ Note("scanlog_open")
  /\ Quiet
  /\ UNCHANGED <<stdio, logOpen, pidout, pidfile, rsVars, logged>>

\* main.c:303  log_printf("MAIN -> reopened logfiles")
RotLogReopened ==
  /\ Running /\ pc = "rot_log_reopened"
  /\ Did("rot_log_reopened", {"stdio"})
  /\ Log("reopened logfiles")
  /\ pc' = "clear_reopen"
  /\ Note("rot_log_reopened")
  /\ Quiet
  /\ UNCHANGED <<ioVars, rsVars>>

\* main.c:305  REOPEN = 0
ClearReopen ==
  /\ Running /\ pc = "clear_reopen"
  /\ Did("clear_reopen", {})
  /\ REOPEN' = 0
  /\ pc' = "check_alarmed"
  /\ Note("clear_reopen")
  /\ Alive /\ LoopFrame
  /\ UNCHANGED <<RESTART, ALARMED, histVars, ioVars, rsVars, logged>>

(* ----------------------- timer round, main.c:309-316 ------------------ *)
\* main.c:309  if (ALARMED)
CheckAlarmed ==
  /\ Running /\ pc = "check_alarmed"
  /\ Did("check_alarmed", {})
  /\ IF ALARMED # 0
       THEN pc' = "irc_timer" /\ Note("ALARMED=1")
       ELSE pc' = "irc_cycle" /\ Note("ALARMED=0")
  /\ Quiet
  /\ UNCHANGED <<ioVars, rsVars, logged>>

\* a call of one of the collaborators' one-second timer functions
Timer(label, field, next) ==
  /\ Running /\ pc = label
  /\ Did(label, CollabNeeds(label))
  /\ MayRestart
  /\ timerCalls' = [timerCalls EXCEPT ![field] = @ + 1]
  /\ pc' = next
  /\ Note(label)
  /\ Alive /\ LoopFrame
  /\ UNCHANGED <<ALARMED, REOPEN, alarmClears, usr1Unserved, ioVars, rsVars,
                 logged>>

\* main.c:311  irc_timer()
IrcTimer == Timer("irc_timer", "irc", "scan_timer")
\* mutant: the round goes on without calling scan_timer()
ScanTimer_Skipped ==
  /\ Running /\ pc = "scan_timer"
  /\ Did("scan_timer", {})
  /\ pc' = "command_timer"
  /\ Note("scan_timer")
  /\ Quiet
  /\ UNCHANGED <<ioVars, rsVars, logged>>

\* main.c:312  scan_timer()
ScanTimer == Timer("scan_timer", "scan", "command_timer")
\* main.c:313  command_timer()
CommandTimer == Timer("command_timer", "cmd", "clear_alarmed")

\* main.c:315  ALARMED = 0, and back to the top of the loop
ClearAlarmed ==
  /\ Running /\ pc = "clear_alarmed"
  /\ Did("clear_alarmed", {})
  /\ ALARMED' = 0
  /\ alarmClears' = alarmClears + 1
  /\ pc' = "irc_cycle"
  /\ Note("clear_alarmed")
  /\ Alive /\ LoopFrame
  /\ UNCHANGED <<RESTART, REOPEN, timerCalls, usr1Unserved, restartBy, ioVars,
                 rsVars, logged>>

(* ----------------------- signals, main.c:74-94 ------------------------ *)
\* what a signal delivery leaves alone whatever its disposition
SigFrame ==
  UNCHANGED <<pc, cfgVars, installed, sbVars, ioVars, rsVars, diag, iter, used>>

\* the default action of SIGALRM, SIGINT, SIGHUP and SIGUSR1: termination
Kill(sig) ==
  /\ run' = "killed"
  /\ exitBy' = sig
  /\ UNCHANGED <<image, status, pid>>

\* case SIGALRM: ALARMED = 1;   (main.c:79-80; alarm(1) is AlarmRearm)
\* SIGALRM is blocked while its own handler runs
DeliverAlrm ==
  /\ run = "running" /\ hpc = "none"
  /\ nAlrm < MaxAlarms
  /\ nAlrm' = nAlrm + 1
  /\ ev' = "SIGALRM"
  /\ IF "SIGALRM" \in installed
       THEN /\ ALARMED' = 1
            /\ hpc' = "alarm"
            /\ Alive
       ELSE /\ Kill("SIGALRM")
            /\ UNCHANGED <<ALARMED, hpc>>
  /\ SigFrame
  /\ UNCHANGED <<RESTART, REOPEN, logged, histVars>>

\* the one-shot timer armed by alarm(1) expires
AlarmExpire ==
  /\ armed
  /\ armed' = FALSE
  /\ DeliverAlrm

\* a SIGALRM sent by another process
AlarmSent ==
  /\ UNCHANGED armed
  /\ DeliverAlrm

\* main.c:81-82  alarm(1); break;  and the return from the handler
AlarmRearm ==
  /\ run = "running" /\ hpc = "alarm"
  /\ armed' = TRUE
  /\ hpc' = "none"
  /\ ev' = "alarm(1)"
  /\ Alive /\ SigFrame
  /\ UNCHANGED <<flagVars, nAlrm, logged, histVars>>

\* mutant: the SIGINT case logs and returns without exit(0)
SigInt_NoExit ==
  /\ run = "running"
  /\ ev' = "SIGINT"
  /\ IF "SIGINT" \in installed
       THEN /\ Log("Caught SIGINT")
            /\ Alive
       ELSE /\ Kill("SIGINT")
            /\ UNCHANGED logged
  /\ SigFrame
  /\ UNCHANGED <<hpc, flagVars, armed, nAlrm, histVars>>

\* case SIGINT: log_printf("MAIN -> Caught SIGINT, bye!"); exit(0);
SigInt ==
  /\ run = "running"
  /\ ev' = "SIGINT"
  /\ IF "SIGINT" \in installed
       THEN /\ Log("Caught SIGINT")
            /\ Exit(0, "SIGINT")
       ELSE /\ Kill("SIGINT")
            /\ UNCHANGED logged
  /\ SigFrame
  /\ UNCHANGED <<hpc, flagVars, armed, nAlrm, histVars>>

\* mutant: the SIGHUP case sets the flag of the SIGUSR1 case
SigHup_WrongFlag ==
  /\ run = "running"
  /\ ev' = "SIGHUP"
  /\ IF "SIGHUP" \in installed
       THEN /\ REOPEN' = 1
            /\ Alive
       ELSE /\ Kill("SIGHUP")
            /\ UNCHANGED REOPEN
  /\ SigFrame
  /\ UNCHANGED <<hpc, RESTART, ALARMED, armed, nAlrm, logged, histVars>>

\* case SIGHUP: RESTART = 1;
SigHup ==
  /\ run = "running"
  /\ ev' = "SIGHUP"
  /\ IF "SIGHUP" \in installed
       THEN /\ RESTART' = 1
            /\ restartBy' = restartBy \cup {"SIGHUP"}
            /\ Alive
       ELSE /\ Kill("SIGHUP")
            /\ UNCHANGED <<RESTART, restartBy>>
  /\ SigFrame
  /\ UNCHANGED <<hpc, ALARMED, REOPEN, armed, nAlrm, logged, timerCalls,
                 alarmClears, usr1Unserved>>

\* mutant: the SIGUSR1 case also requests a timer round
SigUsr1_AlsoAlarmed ==
  /\ run = "running"
  /\ ev' = "SIGUSR1"
  /\ IF "SIGUSR1" \in installed
       THEN /\ REOPEN' = 1
            /\ ALARMED' = 1
            /\ usr1Unserved' = TRUE
            /\ Alive
       ELSE /\ Kill("SIGUSR1")
            /\ UNCHANGED <<REOPEN, ALARMED, usr1Unserved>>
  /\ SigFrame
  /\ UNCHANGED <<hpc, RESTART, armed, nAlrm, logged, timerCalls,
                 alarmClears, restartBy>>

\* case SIGUSR1: REOPEN = 1;
SigUsr1 ==
  /\ run = "running"
  /\ ev' = "SIGUSR1"
  /\ IF "SIGUSR1" \in installed
       THEN /\ REOPEN' = 1
            /\ usr1Unserved' = TRUE
            /\ Alive
       ELSE /\ Kill("SIGUSR1")
            /\ UNCHANGED <<REOPEN, usr1Unserved>>
  /\ SigFrame
  /\ UNCHANGED <<hpc, RESTART, ALARMED, armed, nAlrm, logged, timerCalls,
                 alarmClears, restartBy>>

(* --------------------------- specification ---------------------------- *)
\* the statements of main()
Main ==
  \/ PledgeBroad \/ UnveilRoot \/ GetOpt \/ UnveilPrefix \/ Chdir \/ Fork
  \/ Setpgid \/ OpenNull \/ UnveilLog \/ LogOpen \/ LogDebug \/ LogStarted
  \/ UnveilConf \/ ConfigLoad \/ UnveilScanlog \/ ScanlogOpen \/ UnveilPid
  \/ FopenPid \/ UnveilBin \/ PledgeFinal \/ WritePid \/ FclosePid
  \/ PidErrorLog \/ PidErrorExit \/ SigactionAlrm \/ SigactionInt
  \/ SigactionHup \/ SigactionUsr1 \/ Alarm
  \/ IrcCycle \/ ScanCycle \/ CheckRestart \/ RestartDebug \/ RestartLog
  \/ Getrlimit \/ GetrlimitLog \/ GetrlimitReturn \/ MarkLoop
  \/ ExecvOk \/ ExecvLast \/ ExecvFail \/ ExecvLog \/ ExecvExit
  \/ CheckReopen \/ RotLogCaught \/ LogClose \/ RotLogOpen \/ ScanlogClose
  \/ RotScanlogOpen \/ RotLogReopened \/ ClearReopen
  \/ CheckAlarmed \/ IrcTimer \/ ScanTimer \/ CommandTimer \/ ClearAlarmed

\* the signal deliveries and the rest of the SIGALRM handler
Signals ==
  \/ AlarmExpire \/ AlarmSent \/ AlarmRearm \/ SigInt \/ SigHup \/ SigUsr1

Next == Main \/ Signals

Spec == Init /\ [][Next]_vars

\* the same with the scheduling the program has: main() keeps executing
\* (every call it makes returns) and the SIGALRM handler, once entered, runs
\* to its end
FairSpec == Spec /\ WF_vars(Main) /\ WF_vars(AlarmRearm)

(* ------------------------------ claims -------------------------------- *)
RestartPcs ==
  {"restart_debug", "restart_log", "getrlimit", "getrlimit_log",
   "getrlimit_return", "mark_loop", "execv", "execv_log", "execv_exit"}

RotationPcs ==
  {"rot_log_caught", "log_close", "rot_log_open", "scanlog_close",
   "rot_scanlog_open", "rot_log_reopened", "clear_reopen"}

TimerPcs == {"irc_timer", "scan_timer", "command_timer", "clear_alarmed"}

\* what a rotation and a timer round leave in iter
RotationLabels ==
  {"rot_log_caught", "log_close", "log_open", "scanlog_close", "scanlog_open",
   "rot_log_reopened", "clear_reopen"}

TimerLabels == {"irc_timer", "scan_timer", "command_timer", "clear_alarmed"}

Positions(label) == {k \in 1..Len(iter) : iter[k] = label}

\* C1, state part: in an iteration whose restart check saw RESTART set,
\* nothing of a rotation or a timer round has run and control is in restart
\* handling; rotation and timer steps only follow a restart check that saw
\* RESTART clear; and when the iteration has both a rotation and a timer
\* call, REOPEN = 0 (clear_reopen) comes before irc_timer.
C1_Order ==
  /\ Positions("RESTART=1") # {} =>
       /\ pc \in RestartPcs
       /\ \A k \in 1..Len(iter) : iter[k] \notin RotationLabels \cup TimerLabels
  /\ \A k \in 1..Len(iter) :
       iter[k] \in RotationLabels \cup TimerLabels \cup {"REOPEN=1", "ALARMED=1"} =>
         \E j \in 1..(k - 1) : iter[j] = "RESTART=0"
  /\ \A k \in Positions("irc_timer") :
       (\E j \in 1..Len(iter) : iter[j] \in RotationLabels) =>
         /\ \E j \in 1..(k - 1) : iter[j] = "clear_reopen"
         /\ \A j \in 1..Len(iter) : iter[j] \in RotationLabels => j < k

\* C1, step part: the restart check with RESTART set enters restart
\* handling, whatever REOPEN and ALARMED are; and restart handling is never
\* left in this image: no timer collaborator is called, no log is closed or
\* reopened and the loop clears no flag.
C1_Steps ==
  /\ (pc = "check_restart" /\ RESTART # 0 /\ pc' # pc) => pc' = "restart_debug"
  /\ (pc \in RestartPcs /\ image' = image) =>
       /\ pc' \in RestartPcs
       /\ timerCalls' = timerCalls
       /\ alarmClears' = alarmClears
       /\ logOpen' = logOpen /\ scanlogOpen' = scanlogOpen
       /\ REOPEN' >= REOPEN /\ ALARMED' >= ALARMED

\* C1: the flags are handled in the order restart, log rotation, timers.
C1_RestartRotationTimers == [](C1_Order) /\ [][C1_Steps]_vars

\* C1 witness: restart handling has marked descriptors and is about to call
\* execv while a rotation and a timer round are both still requested.
C1_Witness ==
  /\ run = "running" /\ pc = "execv" /\ rlim_cur > 0
  /\ RESTART = 1 /\ REOPEN = 1 /\ ALARMED = 1

\* C2 (as claimed): a handled SIGUSR1 that no rotation has started after is
\* never dropped: while the process runs the request is still recorded in
\* REOPEN, so the loop will start a rotation for it.
C2_NeverDropped ==
  (run = "running" /\ usr1Unserved) => REOPEN = 1

\* C3 (as claimed): every SIGHUP delivered to the process, at any point of
\* its life, and every call of main_restart() sets RESTART; RESTART is never
\* cleared; and a restart check that finds it set enters restart handling
\* (debug exit, or marking then execv) before any rotation or timer step.
C3_AnyPointSteps ==
  /\ ev' = "SIGHUP" => (RESTART' = 1 /\ run' = "running")
  /\ ("main_restart" \in restartBy' /\ "main_restart" \notin restartBy) =>
       RESTART' = 1
  /\ (RESTART = 1 /\ image' = image) => RESTART' = 1
  /\ (pc = "check_restart" /\ RESTART # 0 /\ pc' # pc) => pc' = "restart_debug"
  /\ (pc = "restart_debug" /\ pc' # pc) => (OPT_DEBUG = 0 /\ pc' = "restart_log")
  /\ (pc = "restart_debug" /\ run' = "exited" /\ ev' = "restart_debug") =>
       OPT_DEBUG # 0

C3_HangupAnyPoint == [][C3_AnyPointSteps]_vars

\* C3 (amended): the same, for a SIGHUP delivered once the SIGHUP handler is
\* installed (main.c:249); before that the signal's default action ends the
\* process and RESTART is not set.
C3_InstalledSteps ==
  /\ (ev' = "SIGHUP" /\ "SIGHUP" \in installed) =>
       (RESTART' = 1 /\ run' = "running")
  /\ (ev' = "SIGHUP" /\ "SIGHUP" \notin installed) =>
       (RESTART' = RESTART /\ run' = "killed")
  /\ ("main_restart" \in restartBy' /\ "main_restart" \notin restartBy) =>
       RESTART' = 1
  /\ (RESTART = 1 /\ image' = image) => RESTART' = 1
  /\ (pc = "check_restart" /\ RESTART # 0 /\ pc' # pc) => pc' = "restart_debug"
  /\ (pc = "restart_debug" /\ pc' # pc) => (OPT_DEBUG = 0 /\ pc' = "restart_log")
  /\ (pc = "restart_debug" /\ run' = "exited" /\ ev' = "restart_debug") =>
       OPT_DEBUG # 0

\* restart handling runs with RESTART set and before any rotation or timer
\* step of its iteration; rotation and timer steps run only in an iteration
\* whose restart check, its third step, saw RESTART clear
C3_NoRotationNoTimer ==
  /\ pc \in RestartPcs =>
       /\ RESTART = 1
       /\ iter[3] = "RESTART=1"
       /\ \A k \in 1..Len(iter) : iter[k] \notin RotationLabels \cup TimerLabels
  /\ pc \in RotationPcs \cup TimerPcs \cup {"check_reopen", "check_alarmed"} =>
       iter[3] = "RESTART=0"

C3_HangupOnceInstalled == [](C3_NoRotationNoTimer) /\ [][C3_InstalledSteps]_vars

\* C3 witness: a SIGHUP alone set RESTART and the next restart check took the
\* process into restart handling, up to execv.
C3_Witness ==
  /\ restartBy = {"SIGHUP"} /\ RESTART = 1
  /\ pc = "execv" /\ iter[3] = "RESTART=1" /\ run = "running"

\* the terminations the claim C4 lists as failures
FailureExits ==
  {"pledge", "unveil", "chdir", "fork()", "setpgid()", "open()", "pid file",
   "restart in debug mode", "getrlimit", "execv failed"}

\* C4 (as claimed): the image that runs (or sets up) the tick loop exits
\* with status 0 only through the SIGINT handler; every exit after a setup
\* failure, a restart refused in debug mode, a failed getrlimit or a failed
\* execv has a nonzero status.
C4_ZeroOnlyOnInterrupt ==
  run = "exited" =>
    /\ status = 0 => exitBy = "SIGINT"
    /\ exitBy \in FailureExits => status # 0

\* C5, state part: a restart refused in debug mode ends with status 1, and an
\* image in debug mode never logs the restart, never marks a descriptor and
\* never calls execv, however RESTART was set.
C5_Refused ==
  /\ exitBy = "restart in debug mode" =>
       (run = "exited" /\ status = 1 /\ OPT_DEBUG > 0 /\ RESTART = 1)
  /\ OPT_DEBUG > 0 =>
       /\ pc \notin RestartPcs \ {"restart_debug"}
       /\ "Restarting process" \notin logged
       /\ marked = NoMarks /\ execvCalls = 0
       /\ \A o \in opens : o.path # "BINPATH"

\* C5, step part: in debug mode the step after a restart check that saw
\* RESTART set is the exit with status 1, and it logs nothing, marks nothing
\* and calls nothing.
C5_RefusalStep ==
  (pc = "restart_debug" /\ OPT_DEBUG > 0 /\ ev' = "restart_debug") =>
    /\ run' = "exited" /\ status' = 1
    /\ logged' = logged /\ marked' = marked /\ execvCalls' = execvCalls
    /\ opens' = opens /\ image' = image

\* C5: in debug mode a restart request ends the process with status 1 and
\* without log line, close-on-exec marking or execv.
C5_DebugRestartRefused == [](C5_Refused) /\ [][C5_RefusalStep]_vars

\* C5 witness: a debug image refused a restart that both a SIGHUP and
\* main_restart() had asked for.
C5_Witness ==
  /\ exitBy = "restart in debug mode" /\ OPT_DEBUG = 2
  /\ restartBy = {"SIGHUP", "main_restart"}

\* C6: timer functions run only inside a round entered with ALARMED set;
\* a round is irc_timer, scan_timer, command_timer, once each and in that
\* order, then ALARMED = 0; so outside a round each function has been called
\* exactly as often as ALARMED was cleared, and inside one the calls made so
\* far are one ahead.
C6_TimerRounds ==
  LET n == alarmClears
      ahead(a, b, c) == /\ timerCalls.irc = n + a
                        /\ timerCalls.scan = n + b
                        /\ timerCalls.cmd = n + c
      last == Len(iter)
  IN  /\ n <= nAlrm
      /\ CASE pc = "irc_timer"     -> ahead(0, 0, 0) /\ iter[last] = "ALARMED=1"
           [] pc = "scan_timer"    ->
                ahead(1, 0, 0) /\ SubSeq(iter, last - 1, last) =
                                    <<"ALARMED=1", "irc_timer">>
           [] pc = "command_timer" ->
                ahead(1, 1, 0) /\ SubSeq(iter, last - 2, last) =
                                    <<"ALARMED=1", "irc_timer", "scan_timer">>
           [] pc = "clear_alarmed" ->
                ahead(1, 1, 1) /\ SubSeq(iter, last - 3, last) =
                   <<"ALARMED=1", "irc_timer", "scan_timer", "command_timer">>
           [] OTHER                -> ahead(0, 0, 0)
      /\ pc \in TimerPcs => ALARMED = 1

\* C6 witness: two SIGALRM deliveries were served by one complete round (the
\* second arrived before the flag was cleared) and the flag is clear again.
C6_Witness ==
  /\ run = "running" /\ nAlrm = 2 /\ alarmClears = 1 /\ ALARMED = 0
  /\ timerCalls = [irc |-> 1, scan |-> 1, cmd |-> 1] /\ hpc = "none"

\* C7 (as claimed): whatever the process does after the final pledge needs
\* only operation categories of the final set.
C7_FinalSetSuffices ==
  narrowed => used \subseteq FinalPromises

\* the paths claim C8 names
NamedPaths == {"LOGFILE", "CONFFILE", "SCANLOG", "PIDFILE", "BINPATH"}

\* C8 (as claimed): each of the named paths was granted, with the rights
\* used, before it was opened or executed; and a debug image never opens
\* the main log.
C8_OpensAreGranted ==
  \A o \in opens :
    /\ o.path \in NamedPaths => o.granted
    /\ argDebug > 0 => o.path # "LOGFILE"

\* the grants of a complete startup with debug level d and scanlog setting s
GrantOrder(d, s) ==
  <<  <<"/", "">>, <<"PREFIX", "r">> >>
  \o (IF d = 0 THEN << <<"LOGFILE", "wc">> >> ELSE <<>>)
  \o << <<"CONFFILE", "r">> >>
  \o (IF s THEN << <<"SCANLOG", "wc">> >> ELSE <<>>)
  \o << <<"PIDFILE", "wc">>, <<"BINPATH", "x">> >>

IsPrefix(a, b) == Len(a) <= Len(b) /\ SubSeq(b, 1, Len(a)) = a

\* C9, state part: the grants made so far are the first grants of the fixed
\* order (so no path is granted twice); after the final pledge the list is
\* complete and the operation set is the final one.
C9_Grants ==
  /\ IsPrefix(unveils, GrantOrder(argDebug, cfgScanlog))
  /\ \A j, k \in 1..Len(unveils) : unveils[j][1] = unveils[k][1] => j = k
  /\ narrowed =>
       /\ unveils = GrantOrder(argDebug, cfgScanlog)
       /\ promises = FinalPromises
  /\ (pc \in RestartPcs \cup RotationPcs \cup TimerPcs
        \cup {"irc_cycle", "scan_cycle", "check_restart", "check_reopen",
              "check_alarmed"}) => narrowed

\* C9, step part: within an image grants are only added and the operation
\* set only shrinks; after the final pledge neither changes.
C9_GrantSteps ==
  image' = image =>
    /\ IsPrefix(unveils, unveils')
    /\ promises' \subseteq promises
    /\ narrowed => (narrowed' /\ unveils' = unveils /\ promises' = promises)

\* C9: grants come in the fixed order, once each, are never revoked, and
\* nothing is granted or widened after the final pledge.
C9_GrantOrderAndFreeze == [](C9_Grants) /\ [][C9_GrantSteps]_vars

\* C9 witness: a non-debug image with a scanlog made all seven grants and
\* has since run a log rotation and a timer round in the tick loop.
C9_Witness ==
  /\ narrowed /\ Len(unveils) = 7 /\ run = "running"
  /\ "reopened logfiles" \in logged /\ alarmClears > 0

\* C10, step part: a SIGINT delivered once its handler is installed logs the
\* notice and exits with status 0 in that very step, which calls nothing,
\* clears no flag, marks no descriptor and does not call execv; and a
\* process that has ended takes no further step.
C10_InterruptStep ==
  /\ (ev' = "SIGINT" /\ "SIGINT" \in installed) =>
       /\ run' = "exited" /\ status' = 0 /\ exitBy' = "SIGINT"
       /\ "Caught SIGINT" \in logged'
       /\ <<RESTART, ALARMED, REOPEN>>' = <<RESTART, ALARMED, REOPEN>>
       /\ <<pc, timerCalls, alarmClears, marked, execvCalls, opens, iter>>'
            = <<pc, timerCalls, alarmClears, marked, execvCalls, opens, iter>>
  /\ run # "running" => UNCHANGED vars

\* C10, state part: the notice is logged only by that exit.
C10_Notice ==
  /\ "Caught SIGINT" \in logged => (run = "exited" /\ exitBy = "SIGINT")
  /\ exitBy = "SIGINT" =>
       (run # "running" /\ (run = "exited" <=> "Caught SIGINT" \in logged)
          /\ (run = "exited" => status = 0))

\* C10: SIGINT ends the process at once, with the notice and status 0.
C10_InterruptExitsAtOnce == [](C10_Notice) /\ [][C10_InterruptStep]_vars

\* C10 witness: the interrupt arrived in the middle of restart handling,
\* after descriptors were marked and before execv, with all flags still set.
C10_Witness ==
  /\ run = "exited" /\ exitBy = "SIGINT" /\ status = 0
  /\ pc = "execv" /\ marked # NoMarks /\ execvCalls = 0
  /\ RESTART = 1 /\ REOPEN = 1 /\ ALARMED = 1

(* ------------------------------- C11 ---------------------------------- *)
\* where control is once descriptor marking has started
MarkingPcs == {"mark_loop", "execv", "execv_log", "execv_exit"}

\* C11: during a restart, for every ceiling getrlimit() can report, no
\* descriptor number is marked close-on-exec more than once, none at or
\* above the ceiling is marked, the marked numbers are taken in ascending
\* order (they are the numbers below the loop counter), and when the loop
\* is left exactly the numbers in [0, ceiling) are marked, once each.
C11_MarksExactlyRange ==
  pc \in MarkingPcs =>
    /\ \A fd \in DOMAIN marked :
         /\ marked[fd] <= 1
         /\ marked[fd] > 0 => fd < rlim_cur
         /\ (marked[fd] > 0 /\ pc = "mark_loop" /\ i > 0) => fd < i
    /\ pc # "mark_loop" =>
         \A fd \in DOMAIN marked : marked[fd] = IF fd < rlim_cur THEN 1 ELSE 0

(* ------------------------------- C12 ---------------------------------- *)
\* where control is inside the tick loop
LoopPcs ==
  {"irc_cycle", "scan_cycle", "check_restart", "check_reopen", "check_alarmed"}
    \cup RestartPcs \cup RotationPcs \cup TimerPcs

\* where control is after a failed fopen() of the pid file
PidErrorPcs == {"unveil_bin", "pledge_final", "pid_error_log", "pid_error_exit"}

\* C12: when the pid file could not be opened, control only runs to the
\* error exit (status 1, error logged) with no handler installed, no timer
\* armed and no loop step taken; and the tick loop is entered only with the
\* pid of this image's running (post-fork) process written to the pid file
\* and the file closed.
C12_PidFileBeforeLoop ==
  /\ pidout = "null" =>
       /\ pc \in PidErrorPcs
       /\ installed = {} /\ ~armed /\ iter = <<>>
       /\ <<RESTART, ALARMED, REOPEN>> = <<0, 0, 0>>
       /\ timerCalls = [irc |-> 0, scan |-> 0, cmd |-> 0]
       /\ pc = "pid_error_exit" => "Error opening pid file" \in logged
  /\ exitBy = "pid file" =>
       /\ run = "exited" /\ status = 1 /\ pidout = "null"
       /\ pc = "pid_error_exit"
  /\ pc \in LoopPcs =>
       /\ pidout = "closed"
       /\ pidfile = <<image, pid>>
       /\ OPT_DEBUG = 0 => pid = "child"

\* C12 witness: a restarted image failed to open the pid file and left with
\* status 1, the file still holding the pid of the image before it.
C12_Witness ==
  /\ exitBy = "pid file" /\ status = 1 /\ image = 2
  /\ pidfile = <<1, "child">> /\ installed = {} /\ ~armed

(* ------------------------------- C13 ---------------------------------- *)
\* where control is after the final pledge
NarrowedPcs ==
  {"write_pid", "fclose_pid", "pid_error_log", "pid_error_exit",
   "sigaction_alrm", "sigaction_int", "sigaction_hup", "sigaction_usr1",
   "alarm"} \cup LoopPcs

C13_NarrowedWhere ==
  /\ narrowed <=> pc \in NarrowedPcs
  /\ narrowed => pidout \in {"open", "null", "closed"}
  /\ ~narrowed => (pidout # "closed" /\ pidfile[1] # image)

\* C13 amended, step part: the final pledge succeeds at most once in an
\* image, after fopen() of the pid file and before the pid is written; the
\* write and the close happen under the narrowed set.
C13_NarrowSteps ==
  /\ (ev' = "pledge_final" /\ narrowed') =>
       /\ ~narrowed
       /\ pidout \in {"open", "null"} /\ pidout' = pidout
       /\ pidfile[1] # image /\ pidfile' = pidfile
  /\ narrowed => (ev' # "pledge_final" /\ (image' = image => narrowed'))
  /\ ev' \in {"write_pid", "fclose_pid"} => (narrowed /\ narrowed')

C14_FatalDiagnosticsToLog ==
  /\ exitBy \in {"unveil", "pledge"} => (run = "exited" /\ status # 0)
  /\ \A d \in diag :
       d.msg \in {"unveil", "pledge"} => (~d.logOpen /\ d.sink # "null")

(* ------------------------------- C15 ---------------------------------- *)
\* the steps of the loop that do its work
LoopWork == {"irc_cycle", "scan_cycle"} \cup RotationLabels \cup TimerLabels

\* where control is after a failed getrlimit()
GetrlimitErrorPcs == {"getrlimit_log", "getrlimit_return"}

\* C15, state part: a failed execv was called once, is logged before the
\* exit and ends the process; a failed getrlimit() is logged and ends the
\* process with no descriptor marked and execv not called.
C15_Failures ==
  /\ pc \in {"execv_log", "execv_exit"} => execvCalls = 1
  /\ pc = "execv_exit" => "Execution failed" \in logged
  /\ exitBy = "execv failed" => (run = "exited" /\ pc = "execv_exit")
  /\ pc \in GetrlimitErrorPcs => (marked = NoMarks /\ execvCalls = 0)
  /\ pc = "getrlimit_return" => "getrlimit() error" \in logged
  /\ exitBy = "getrlimit" =>
       (run = "exited" /\ status = 1 /\ pc = "getrlimit_return")

\* C15, step part: once descriptor marking has started the old image only
\* goes forward through execv, the log of its failure and the exit, and
\* does none of the loop's work; a returning execv leads to the log and the
\* exit; after a failed getrlimit() nothing is marked and execv isn't called.
C15_NoReturn ==
  /\ (pc \in MarkingPcs /\ image' = image) =>
       /\ pc' \in MarkingPcs
       /\ ev' \notin LoopWork
       /\ timerCalls' = timerCalls /\ alarmClears' = alarmClears
       /\ logOpen' = logOpen /\ scanlogOpen' = scanlogOpen
       /\ pc \in {"execv_log", "execv_exit"} =>
            (pc' \in {"execv_log", "execv_exit"} /\ marked' = marked
               /\ execvCalls' = execvCalls)
       /\ pc = "execv_exit" => pc' = pc
  /\ (pc = "execv" /\ ev' = "execv" /\ run' = "running" /\ image' = image) =>
       pc' = "execv_log"
  /\ pc \in GetrlimitErrorPcs =>
       /\ pc' \in GetrlimitErrorPcs /\ image' = image
       /\ marked' = marked /\ execvCalls' = execvCalls
       /\ ev' \notin LoopWork

\* C15: a failed execv or getrlimit() during a restart is logged and ends
\* the process; control never returns to the tick loop.
C15_RestartFailuresEnd == [](C15_Failures) /\ [][C15_NoReturn]_vars

\* C15 witness: execv failed after descriptors were marked, the failure was
\* logged and the process ended with a rotation and a tick still requested.
C15_Witness ==
  /\ run = "exited" /\ exitBy = "execv failed"
  /\ marked # NoMarks /\ execvCalls = 1 /\ "Execution failed" \in logged
  /\ REOPEN = 1 /\ ALARMED = 1

(* ------------------------------- C16 ---------------------------------- *)
\* the steps in which a collaborator runs and may call main_restart()
CollaboratorCalls ==
  {"irc_cycle", "scan_cycle", "irc_timer", "scan_timer", "command_timer"}

\* the program's state apart from the three flags
BesidesFlags ==
  <<procVars, pc, hpc, cfgVars, installed, armed, sbVars, ioVars, rsVars,
    logged, diag, iter, timerCalls, alarmClears>>

\* the last n entries of iter are s
EndsWith(s) ==
  /\ Len(iter) >= Len(s)
  /\ SubSeq(iter, Len(iter) - Len(s) + 1, Len(iter)) = s

\* C16, who sets: within an image a flag goes from 0 to 1 only in its own
\* writer: RESTART in the SIGHUP handler or in main_restart() called by a
\* collaborator, REOPEN in the SIGUSR1 handler, ALARMED in the SIGALRM one.
C16_Setters ==
  /\ (RESTART = 0 /\ RESTART' # 0) =>
       \/ ev' = "SIGHUP" /\ "SIGHUP" \in installed /\ restartBy' = {"SIGHUP"}
       \/ ev' \in CollaboratorCalls /\ restartBy' = {"main_restart"}
  /\ (REOPEN = 0 /\ REOPEN' # 0) => (ev' = "SIGUSR1" /\ "SIGUSR1" \in installed)
  /\ (ALARMED = 0 /\ ALARMED' # 0) =>
       (ev' = "SIGALRM" /\ "SIGALRM" \in installed)

\* C16, who clears: within an image REOPEN goes back to 0 only at the end of
\* a completed rotation and ALARMED only at the end of a full timer round,
\* both in the tick loop; RESTART never goes back to 0.
C16_Clearers ==
  image' = image =>
    /\ RESTART' >= RESTART
    /\ (REOPEN # 0 /\ REOPEN' = 0) =>
         /\ pc = "clear_reopen" /\ ev' = "clear_reopen"
         /\ EndsWith(<<"rot_log_reopened">>)
         /\ Positions("log_close") # {} /\ Positions("log_open") # {}
         /\ logOpen /\ (scanlog => scanlogOpen)
    /\ (ALARMED # 0 /\ ALARMED' = 0) =>
         /\ pc = "clear_alarmed" /\ ev' = "clear_alarmed"
         /\ EndsWith(<<"irc_timer", "scan_timer", "command_timer">>)

\* C16, handlers: each handler leaves the flags of the others alone; the
\* SIGHUP and SIGUSR1 handlers write their flag and do nothing else, and the
\* first step of the SIGALRM handler writes its flag and nothing else.
C16_Handlers ==
  /\ ev' = "SIGHUP" => <<ALARMED, REOPEN>>' = <<ALARMED, REOPEN>>
  /\ ev' = "SIGUSR1" => <<RESTART, ALARMED>>' = <<RESTART, ALARMED>>
  /\ ev' \in {"SIGALRM", "alarm(1)"} => <<RESTART, REOPEN>>' = <<RESTART, REOPEN>>
  /\ ev' = "SIGINT" => <<RESTART, ALARMED, REOPEN>>' = <<RESTART, ALARMED, REOPEN>>
  /\ (ev' = "SIGHUP" /\ "SIGHUP" \in installed) =>
       (RESTART' = 1 /\ BesidesFlags' = BesidesFlags)
  /\ (ev' = "SIGUSR1" /\ "SIGUSR1" \in installed) =>
       (REOPEN' = 1 /\ BesidesFlags' = BesidesFlags)
  /\ (ev' = "SIGALRM" /\ "SIGALRM" \in installed) =>
       /\ ALARMED' = 1 /\ hpc' = "alarm"
       /\ <<procVars, pc, cfgVars, installed, sbVars, ioVars, rsVars, logged,
            diag, iter, timerCalls, alarmClears>>'
            = <<procVars, pc, cfgVars, installed, sbVars, ioVars, rsVars,
                logged, diag, iter, timerCalls, alarmClears>>

\* C16: the three lifecycle flags have exactly these writers.
C16_FlagWriters == [][C16_Setters /\ C16_Clearers /\ C16_Handlers]_vars

\* C16 witness: in one image RESTART was set both by SIGHUP and by
\* main_restart(), and REOPEN and ALARMED were set by their signals and
\* cleared by the loop after a rotation and a timer round.
C16_Witness ==
  /\ restartBy = {"SIGHUP", "main_restart"} /\ RESTART = 1
  /\ alarmClears > 0 /\ "reopened logfiles" \in logged
  /\ REOPEN = 0 /\ ALARMED = 0 /\ run = "running"

(* ------------------------------- C17 ---------------------------------- *)
\* what an iteration records up to a REOPEN check that found the flag set
ToRotation == <<"irc_cycle", "scan_cycle", "RESTART=0", "REOPEN=1">>

\* the steps of a rotation, in order, with (s) or without a scan log
Rotation(s) ==
  <<"rot_log_caught", "log_close", "log_open">>
    \o (IF s THEN <<"scanlog_close", "scanlog_open">> ELSE <<>>)
    \o <<"rot_log_reopened", "clear_reopen">>

\* the entries of iter from position k on, at most n of them
From(k, n) ==
  SubSeq(iter, k, IF Len(iter) < k + n - 1 THEN Len(iter) ELSE k + n - 1)

\* C17, state part: a rotation step only occurs in an iteration whose
\* restart check found RESTART clear and whose REOPEN check found the flag
\* set, the rotation steps taken so far are the first steps of: close the
\* log, reopen it, then (exactly when a scan log is configured) close and
\* reopen the scan log, and only then REOPEN = 0; there is at most one
\* rotation in an iteration, and a rotation in progress has the flag set
\* check behind it.
C17_RotationOrder ==
  /\ (\E k \in 1..Len(iter) : iter[k] \in RotationLabels \cup {"REOPEN=1"}) =>
       /\ From(1, 4) = ToRotation
       /\ IsPrefix(From(5, Len(Rotation(scanlog))), Rotation(scanlog))
  /\ \A l \in RotationLabels \cup {"REOPEN=1"} : Cardinality(Positions(l)) <= 1
  /\ pc \in RotationPcs =>
       (From(1, 4) = ToRotation /\ Len(iter) < 4 + Len(Rotation(scanlog)))

\* C17, step part: the rotation starts from the REOPEN check with the flag
\* set; the main log is reopened at LOGFILE and the scan log at the
\* configured path; REOPEN is cleared by the last step of the rotation,
\* with both logs open again.
C17_RotationSteps ==
  /\ (pc = "check_reopen" /\ pc' = "rot_log_caught") =>
       (REOPEN # 0 /\ EndsWith(<<"RESTART=0">>))
  /\ (pc = "check_reopen" /\ pc' \notin {"check_reopen", "rot_log_caught"}) =>
       (REOPEN = 0 /\ pc' = "check_alarmed")
  /\ (pc = "rot_log_open" /\ pc' # pc) =>
       (\E o \in opens' : o.path = "LOGFILE" /\ o.rights = "wc") /\ logOpen'
  /\ (pc = "rot_scanlog_open" /\ pc' # pc) =>
       (\E o \in opens' : o.path = "SCANLOG") /\ scanlogOpen' /\ scanlog
  /\ ev' = "clear_reopen" =>
       /\ From(5, Len(Rotation(scanlog)))' = Rotation(scanlog)
       /\ REOPEN' = 0 /\ logOpen /\ (scanlog <=> scanlogOpen)

\* C17: a rotation closes and reopens the main log, then the scan log when
\* one is configured, then clears REOPEN; at most once per iteration and
\* only after a restart check that found RESTART clear.
C17_RotationRun == [](C17_RotationOrder) /\ [][C17_RotationSteps]_vars

\* C17 witness: a rotation with a scan log has just completed.
C17_Witness ==
  /\ scanlog /\ pc = "check_alarmed" /\ ev = "clear_reopen"
  /\ From(5, 7) = Rotation(TRUE) /\ REOPEN = 0 /\ scanlogOpen /\ logOpen

(* ------------------------------- C18 ---------------------------------- *)
\* the four signals main() installs do_signal for
Handled == {"SIGALRM", "SIGINT", "SIGHUP", "SIGUSR1"}

\* C18, order of the bootstrap as a state property: before the broad pledge
\* no file was opened, no path granted and no fork done; a handler is
\* installed only under the final narrowing; and the loop runs only with
\* all four handlers installed.
C18_Order ==
  /\ pc = "pledge_broad" =>
       (opens = {} /\ unveils = <<>> /\ pid = "parent" /\ ~narrowed)
  /\ installed # {} => narrowed
  /\ pc \in LoopPcs => (installed = Handled /\ narrowed)

\* C18, order of the bootstrap as a step property: alarm(1) of main() is
\* called with the SIGALRM handler installed and the first irc_cycle()
\* comes after it.
C18_OrderSteps ==
  /\ ev' = "alarm" => ("SIGALRM" \in installed /\ pc' = "irc_cycle")
  /\ (ev' = "irc_cycle" /\ pc = "irc_cycle") => installed = Handled

\* C18, the consequence for the timer: when the one-shot timer expires, the
\* image it expires in has its SIGALRM handler installed.
C18_TimerHasHandler ==
  (ev' = "SIGALRM" /\ armed /\ ~armed') => "SIGALRM" \in installed

\* C18: the bootstrap phases are strictly ordered (broad pledge, grants and
\* fork, final narrowing, handlers, timer, loop), and so the periodic timer
\* never expires in an image that has no handler for it.
C18_BootstrapOrder ==
  [](C18_Order) /\ [][C18_OrderSteps /\ C18_TimerHasHandler]_vars

(* ------------------------------- C19 ---------------------------------- *)
\* C19, state part: from alarm(1) of main() on, while the process runs,
\* the one-shot timer is armed or the SIGALRM handler is executing, on its
\* way to alarm(1); ALARMED is a flag, not a count, and there are never more
\* completed timer rounds than SIGALRM deliveries.
C19_Armed ==
  /\ (run = "running" /\ pc \in LoopPcs) => (armed \/ hpc = "alarm")
  /\ ALARMED \in {0, 1}
  /\ alarmClears <= nAlrm
  /\ \A f \in DOMAIN timerCalls : timerCalls[f] <= nAlrm

\* C19, step part: a handled SIGALRM sets ALARMED and enters the handler,
\* which re-arms the timer before it returns; the ALARMED check starts a
\* timer round exactly when the flag is set, however many deliveries set it.
C19_TickSteps ==
  /\ (ev' = "SIGALRM" /\ "SIGALRM" \in installed) =>
       (ALARMED' = 1 /\ hpc' = "alarm")
  /\ (hpc = "alarm" /\ hpc' = "none" /\ image' = image) =>
       (ev' = "alarm(1)" /\ armed')
  /\ (pc = "check_alarmed" /\ pc' # pc) =>
       pc' = (IF ALARMED # 0 THEN "irc_timer" ELSE "irc_cycle")

\* C19, progress: as the statements of main() and the handler keep
\* executing, a requested tick is served (ALARMED is cleared after a timer
\* round) unless the process exits, is killed or is replaced.
C19_RoundFollows ==
  (ALARMED = 1) ~> (ALARMED = 0 \/ run # "running")

\* C19: from the first arming of the timer the clock never stops: SIGALRM
\* sets ALARMED and re-arms the timer, deliveries are coalesced into one
\* timer round, and a requested timer round does run until the process
\* exits or is replaced.
C19_ClockNeverStops ==
  [](C19_Armed) /\ [][C19_TickSteps]_vars /\ C19_RoundFollows

(* ------------------------------- C20 ---------------------------------- *)
\* C20, step part: the marking loop is entered from a successful
\* getrlimit() in a non-debug restart, and a successful execv starts the
\* next image with the same arguments.
C20_RestartSteps ==
  /\ (pc' = "mark_loop" /\ pc # "mark_loop") =>
       (ev' = "getrlimit" /\ OPT_DEBUG = 0 /\ RESTART # 0 /\ i' = 0)
  /\ image' # image =>
       (pc = "execv" /\ image' = image + 1 /\ argDebug' = argDebug)

\* C20, progress: for every ceiling getrlimit() can report, the marking
\* loop is left after finitely many passes and execv is attempted, unless
\* the process is ended by a signal first.
C20_MarkingEnds ==
  (pc = "mark_loop") ~> (pc = "execv" \/ run # "running")

\* C20: in non-debug mode, once RESTART is observed and getrlimit()
\* succeeds, restart handling terminates: the marking loop finishes and
\* execv with the original arguments is attempted, whatever the ceiling.
C20_RestartTerminates == [][C20_RestartSteps]_vars /\ C20_MarkingEnds

====
